---- MODULE Spec2Model ----
(***************************************************************************)
(* A model of cmd/spread/main.go: one invocation of the spread command.    *)
(*                                                                         *)
(*   main / run      the main goroutine, one action per statement group    *)
(*   signal handler  the goroutine run() spawns after signal.Notify        *)
(*   downloadDir     the pre-restore hook, stepped statement by statement, *)
(*                   with the io.Pipe between Client.RecvTar and `tar xJ`  *)
(*                                                                         *)
(* The spread package (NewFilter, Load, Project.Jobs, Start, Runner,       *)
(* Client) is outside the source: its calls are environment steps whose    *)
(* outcome is chosen nondeterministically, and every call is appended to   *)
(* the history variable `calls` in the order it is made.                   *)
(***************************************************************************)
EXTENDS Integers, Sequences, FiniteSets, TLC

\* ------------------------------------------------------------------ bounds
MaxArgs == 2
MaxDownloadLen == 2
MaxInterrupts == 2
MaxHookCalls == 1
MaxJobs == 2
MaxChunks == 2

\* make(chan os.Signal, 1)
SigchCap == 1

\* ------------------------------------------------------------------ values
Nil == "nil"
ErrModes == "cannot have more than one of -debug, -shell, -shell-before/after, -abend, and -restore"
ErrRand == "cannot generate random password"
ErrFilter == "NewFilter error"
ErrLoad == "Load error"
ErrJobs == "Jobs error"
ErrStart == "Start error"
ErrWait == "Wait error"
ErrMkdir == "cannot create artifacts directory"
ErrTarStart == "cannot start unpacking tar"
ErrRecv == "RecvTar error"
ErrTar == "tar exit error"

Chars == {"a", ":"}
Patterns == {"p"}
JobNames == {"j1", "j2"}

SeqsUpTo(S, n) == UNION {[1..k -> S] : k \in 0..n}

VARIABLES
  flags,      \* the parsed command line (the flag package's variables, flag.Args)
  pc,         \* position of the main goroutine in main/run
  password,   \* run: password
  filter,     \* run: filter
  options,    \* run: options, <<>> before the &spread.Options{} literal, <<record>> after
  project,    \* run: project, <<>> before Load, <<record>> after
  jobs,       \* run: jobs returned by project.Jobs
  stdout,     \* lines printed by fmt.Println
  result,     \* the error run() returned
  exitStatus, \* "running", "0" (main returned), "1" (os.Exit(1)), "SIGINT" (killed)
  calls,      \* history: the calls made by run() and its goroutine, in order, with their error
  filterArgs, \* history: the argument of each NewFilter call
  jobsArg,    \* history: the Options value seen by each Project.Jobs call
  startArg,   \* history: the Options value and hook seen by each spread.Start call
  runner,     \* the Runner: "none", "running", "stopping", "finished"
  runnerErr,  \* the aggregate error Runner.Wait will report
  notified,   \* signal.Notify(sigch, os.Interrupt) is in effect
  sigch,      \* number of signals buffered in sigch (capacity 1)
  gpc,        \* position of the signal goroutine: "none", "recv", "stop", "end"
  interrupts, \* interrupts sent to the process so far
  hookCalls,  \* times the Runner has invoked project.PreRestoreProject
  hookRets,   \* history: the value each hook invocation returned
  dcalls,     \* history: the calls made by downloadDir, in order, with their error
  dl          \* the running downloadDir call: its position and locals

vars == <<flags, pc, password, filter, options, project, jobs, stdout, result,
          exitStatus, calls, filterArgs, jobsArg, startArg, runner, runnerErr,
          notified, sigch, gpc, interrupts, hookCalls, hookRets, dcalls, dl>>

runVars == <<flags, pc, password, filter, options, project, jobs, stdout, result,
             filterArgs, jobsArg, startArg>>
sigVars == <<notified, sigch, gpc, interrupts>>
hookVars == <<hookCalls, hookRets, dcalls, dl>>

\* ------------------------------------------------------------------ history helpers
Call(op, err) == [op |-> op, err |-> err]
Called(op) == \E i \in 1..Len(calls) : calls[i].op = op
Count(op) == Cardinality({i \in 1..Len(calls) : calls[i].op = op})
Failed(op) == \E i \in 1..Len(calls) : calls[i].op = op /\ calls[i].err # Nil
Succeeded(op) == \E i \in 1..Len(calls) : calls[i].op = op /\ calls[i].err = Nil
\* every call of a precedes every call of b
Before(a, b) == \A i, j \in 1..Len(calls) : (calls[i].op = a /\ calls[j].op = b) => i < j

Alive == exitStatus = "running"

\* ------------------------------------------------------------------ the command line
\* The run-mode flags -debug, -shell, -shell-before, -shell-after, -abend, -restore.
ModeFlags == [debug : BOOLEAN, shell : BOOLEAN, shellBefore : BOOLEAN,
              shellAfter : BOOLEAN, abend : BOOLEAN, restore : BOOLEAN]

\* The flags no branch of run() reads (-resend, -no-debug-output, -artifacts, -logs,
\* -seed, -repeat, -gc): all at their defaults, or all given.
AuxFlags == {[resend |-> FALSE, noDebug |-> FALSE, artifacts |-> "", logs |-> "",
              seed |-> 0, repeat |-> 0, gc |-> FALSE],
             [resend |-> TRUE, noDebug |-> TRUE, artifacts |-> "art", logs |-> "log",
              seed |-> 7, repeat |-> 3, gc |-> TRUE]}

MkFlags(m, a, l, p, r, rp, d, as, dw) ==
  [debug |-> m.debug, shell |-> m.shell, shellBefore |-> m.shellBefore,
   shellAfter |-> m.shellAfter, abend |-> m.abend, restore |-> m.restore,
   resend |-> a.resend, noDebug |-> a.noDebug, artifacts |-> a.artifacts,
   logs |-> a.logs, seed |-> a.seed, repeat |-> a.repeat, gc |-> a.gc,
   list |-> l, pass |-> p, reuse |-> r, reusePid |-> rp, discard |-> d,
   args |-> as, download |-> dw]

NoModes == [debug |-> FALSE, shell |-> FALSE, shellBefore |-> FALSE,
            shellAfter |-> FALSE, abend |-> FALSE, restore |-> FALSE]

\* Every combination of the flags run() branches on; -download left unset.
RunFlagSets ==
  {MkFlags(m, a, l, p, r, rp, d, as, <<>>) :
     m \in ModeFlags, a \in AuxFlags, l \in BOOLEAN, p \in {"", "secret"},
     r \in BOOLEAN, rp \in {0, 4711}, d \in BOOLEAN,
     as \in SeqsUpTo(Patterns, MaxArgs)}

NoAux == [resend |-> FALSE, noDebug |-> FALSE, artifacts |-> "", logs |-> "",
          seed |-> 0, repeat |-> 0, gc |-> FALSE]

\* Every -download value up to MaxDownloadLen characters, with and without -list, the
\* rest at their defaults.
CampaignFlagSets ==
  {MkFlags(NoModes, NoAux, l, "secret", FALSE, 0, FALSE, <<>>, dw) :
     l \in BOOLEAN, dw \in SeqsUpTo(Chars, MaxDownloadLen)}

\* flag.String returns a non-nil pointer, so `download != nil` holds.
DownloadPtrNonNil == TRUE

ZeroFilter == [set |-> FALSE, patterns |-> <<>>]
\* No downloadDir call in progress; otherwise its position and locals: err and terr,
\* the pipe (chunks RecvTar has written and not yet read, tarw closed or not) and the
\* unpacker process (tar: "none", "running", "exited"; tarErr: what cmd.Wait reports;
\* eof: it has read end-of-stream from its standard input).
NoDl == [pc |-> "idle", parts |-> <<>>, err |-> Nil, terr |-> Nil, pipe |-> 0,
         written |-> 0, closed |-> FALSE, tar |-> "none", tarErr |-> Nil, eof |-> FALSE]

InitWith(F) ==
  /\ flags \in F
  /\ pc = "validate"
  /\ password = ""
  /\ filter = ZeroFilter
  /\ options = <<>>
  /\ project = <<>>
  /\ jobs = <<>>
  /\ stdout = <<>>
  /\ result = Nil
  /\ exitStatus = "running"
  /\ calls = <<>>
  /\ filterArgs = <<>>
  /\ jobsArg = <<>>
  /\ startArg = <<>>
  /\ runner = "none"
  /\ runnerErr = Nil
  /\ notified = FALSE
  /\ sigch = 0
  /\ gpc = "none"
  /\ interrupts = 0
  /\ hookCalls = 0
  /\ hookRets = <<>>
  /\ dcalls = <<>>
  /\ dl = NoDl

Init == InitWith(CampaignFlagSets)
InitRun == InitWith(RunFlagSets)

\* ------------------------------------------------------------------ run()
\* `return err` from run(): main then prints it and exits.
Return(err) ==
  /\ result' = err
  /\ pc' = "returned"

\* Mutant: -shell-before and -shell-after counted as two groups.
ModeGroupsSix(f) == <<f.debug, f.shell, f.shellBefore, f.shellAfter, f.abend, f.restore>>

\* The loop of lines 99-106 over the five groups: TRUE when it returns the error.
ModeGroups(f) == <<f.debug, f.shell, f.shellBefore \/ f.shellAfter, f.abend, f.restore>>

RECURSIVE ModeLoop(_, _, _)
ModeLoop(bs, i, other) ==
  IF i > Len(bs) THEN FALSE
  ELSE IF bs[i] /\ other THEN TRUE
  ELSE ModeLoop(bs, i + 1, other \/ bs[i])

ModeConflict(f) == ModeLoop(ModeGroups(f), 1, FALSE)

Validate ==
  /\ Alive /\ pc = "validate"
  /\ IF ModeConflict(flags) THEN Return(ErrModes) ELSE pc' = "password" /\ result' = result
  /\ UNCHANGED <<flags, password, filter, options, project, jobs, stdout, exitStatus,
                 calls, filterArgs, jobsArg, startArg, runner, runnerErr>>
  /\ UNCHANGED <<sigVars, hookVars>>

\* Lines 108-116: the -pass value, or 8 random bytes printed in hexadecimal.
Password ==
  /\ Alive /\ pc = "password"
  /\ IF flags.pass = ""
     THEN \E e \in {Nil, ErrRand} :
            /\ calls' = Append(calls, Call("rand.Read", e))
            /\ IF e # Nil
               THEN Return(e) /\ password' = password
               ELSE pc' = "filter" /\ password' = "<16 hex digits>" /\ result' = result
     ELSE pc' = "filter" /\ password' = flags.pass /\ UNCHANGED <<calls, result>>
  /\ UNCHANGED <<flags, filter, options, project, jobs, stdout, exitStatus,
                 filterArgs, jobsArg, startArg, runner, runnerErr>>
  /\ UNCHANGED <<sigVars, hookVars>>

\* Mutant: NewFilter is called whether or not there are positional arguments.
FilterAlways ==
  /\ Alive /\ pc = "filter"
  /\ \E e \in {Nil, ErrFilter} :
       /\ calls' = Append(calls, Call("NewFilter", e))
       /\ filterArgs' = Append(filterArgs, flags.args)
       /\ IF e # Nil
          THEN Return(e) /\ filter' = filter
          ELSE /\ pc' = "options"
               /\ filter' = [set |-> TRUE, patterns |-> flags.args]
               /\ result' = result
  /\ UNCHANGED <<flags, password, options, project, jobs, stdout, exitStatus,
                 jobsArg, startArg, runner, runnerErr>>
  /\ UNCHANGED <<sigVars, hookVars>>

\* Lines 118-125: NewFilter only when there are positional arguments.
Filter ==
  /\ Alive /\ pc = "filter"
  /\ IF Len(flags.args) > 0
     THEN \E e \in {Nil, ErrFilter} :
            /\ calls' = Append(calls, Call("NewFilter", e))
            /\ filterArgs' = Append(filterArgs, flags.args)
            /\ IF e # Nil
               THEN Return(e) /\ filter' = filter
               ELSE /\ pc' = "options"
                    /\ filter' = [set |-> TRUE, patterns |-> flags.args]
                    /\ result' = result
     ELSE pc' = "options" /\ UNCHANGED <<calls, filterArgs, filter, result>>
  /\ UNCHANGED <<flags, password, options, project, jobs, stdout, exitStatus,
                 jobsArg, startArg, runner, runnerErr>>
  /\ UNCHANGED <<sigVars, hookVars>>

\* Lines 127-146: the &spread.Options{...} literal.
BuildOptions(f, pw, fl) ==
  [Password |-> pw, Filter |-> fl, Reuse |-> f.reuse, ReusePid |-> f.reusePid,
   Resend |-> f.resend, Debug |-> f.debug, NoDebug |-> f.noDebug, Shell |-> f.shell,
   ShellBefore |-> f.shellBefore, ShellAfter |-> f.shellAfter, Abend |-> f.abend,
   Restore |-> f.restore, Discard |-> f.discard, Artifacts |-> f.artifacts,
   Logs |-> f.logs, Seed |-> f.seed, Repeat |-> f.repeat, GarbageCollect |-> f.gc]

Options ==
  /\ Alive /\ pc = "options"
  /\ options' = <<BuildOptions(flags, password, filter)>>
  /\ pc' = "load"
  /\ UNCHANGED <<flags, password, filter, project, jobs, stdout, result, exitStatus,
                 calls, filterArgs, jobsArg, startArg, runner, runnerErr>>
  /\ UNCHANGED <<sigVars, hookVars>>

\* Mutant: the error of spread.Load is not checked.
LoadIgnoresError ==
  /\ Alive /\ pc = "load"
  /\ \E e \in {Nil, ErrLoad} : calls' = Append(calls, Call("Load", e))
  /\ project' = <<[PreRestoreProject |-> FALSE]>>
  /\ pc' = IF flags.list THEN "jobs" ELSE "discard"
  /\ UNCHANGED <<flags, password, filter, options, jobs, stdout, result, exitStatus,
                 filterArgs, jobsArg, startArg, runner, runnerErr>>
  /\ UNCHANGED <<sigVars, hookVars>>

\* Lines 148-153: spread.Load("."), then the -list branch.
Load ==
  /\ Alive /\ pc = "load"
  /\ \E e \in {Nil, ErrLoad} :
       /\ calls' = Append(calls, Call("Load", e))
       /\ IF e # Nil
          THEN Return(e) /\ project' = project
          ELSE /\ project' = <<[PreRestoreProject |-> FALSE]>>
               /\ pc' = IF flags.list THEN "jobs" ELSE "discard"
               /\ result' = result
  /\ UNCHANGED <<flags, password, filter, options, jobs, stdout, exitStatus,
                 filterArgs, jobsArg, startArg, runner, runnerErr>>
  /\ UNCHANGED <<sigVars, hookVars>>

\* Lines 153-157: project.Jobs(options) under -list.
Jobs ==
  /\ Alive /\ pc = "jobs"
  /\ \E js \in SeqsUpTo(JobNames, MaxJobs), e \in {Nil, ErrJobs} :
       /\ calls' = Append(calls, Call("Jobs", e))
       /\ jobsArg' = Append(jobsArg, options[1])
       /\ jobs' = js
       /\ IF e # Nil THEN Return(e) ELSE pc' = "print" /\ result' = result
  /\ UNCHANGED <<flags, password, filter, options, project, stdout, exitStatus,
                 filterArgs, startArg, runner, runnerErr>>
  /\ UNCHANGED <<sigVars, hookVars>>

\* Mutant: the names are printed from the last job to the first.
PrintJobsReversed ==
  /\ Alive /\ pc = "print"
  /\ IF Len(stdout) < Len(jobs)
     THEN stdout' = Append(stdout, jobs[Len(jobs) - Len(stdout)]) /\ UNCHANGED <<pc, result>>
     ELSE Return(Nil) /\ stdout' = stdout
  /\ UNCHANGED <<flags, password, filter, options, project, jobs, exitStatus, calls,
                 filterArgs, jobsArg, startArg, runner, runnerErr>>
  /\ UNCHANGED <<sigVars, hookVars>>

\* Lines 158-161: one fmt.Println(job.Name) per iteration, then return nil.
PrintJobs ==
  /\ Alive /\ pc = "print"
  /\ IF Len(stdout) < Len(jobs)
     THEN stdout' = Append(stdout, jobs[Len(stdout) + 1]) /\ UNCHANGED <<pc, result>>
     ELSE Return(Nil) /\ stdout' = stdout
  /\ UNCHANGED <<flags, password, filter, options, project, jobs, exitStatus, calls,
                 filterArgs, jobsArg, startArg, runner, runnerErr>>
  /\ UNCHANGED <<sigVars, hookVars>>

\* Mutant: -discard forces Reuse whatever -reuse-pid is.
DiscardIgnoresPid ==
  /\ Alive /\ pc = "discard"
  /\ options' = IF options[1].Discard
                THEN <<[options[1] EXCEPT !.Reuse = TRUE]>>
                ELSE options
  /\ pc' = "hook"
  /\ UNCHANGED <<flags, password, filter, project, jobs, stdout, result, exitStatus,
                 calls, filterArgs, jobsArg, startArg, runner, runnerErr>>
  /\ UNCHANGED <<sigVars, hookVars>>

\* Mutant: the discard branch also turns Resend off.
DiscardClearsResend ==
  /\ Alive /\ pc = "discard"
  /\ options' = IF options[1].Discard /\ options[1].ReusePid = 0
                THEN <<[options[1] EXCEPT !.Reuse = TRUE, !.Resend = FALSE]>>
                ELSE options
  /\ pc' = "hook"
  /\ UNCHANGED <<flags, password, filter, project, jobs, stdout, result, exitStatus,
                 calls, filterArgs, jobsArg, startArg, runner, runnerErr>>
  /\ UNCHANGED <<sigVars, hookVars>>

\* Lines 164-166.
Discard ==
  /\ Alive /\ pc = "discard"
  /\ options' = IF options[1].Discard /\ options[1].ReusePid = 0
                THEN <<[options[1] EXCEPT !.Reuse = TRUE]>>
                ELSE options
  /\ pc' = "hook"
  /\ UNCHANGED <<flags, password, filter, project, jobs, stdout, result, exitStatus,
                 calls, filterArgs, jobsArg, startArg, runner, runnerErr>>
  /\ UNCHANGED <<sigVars, hookVars>>

\* Lines 168-172: project.PreRestoreProject = the closure calling downloadDir.
InstallHook ==
  /\ Alive /\ pc = "hook"
  /\ IF DownloadPtrNonNil
     THEN /\ project' = <<[project[1] EXCEPT !.PreRestoreProject = TRUE]>>
          /\ calls' = Append(calls, Call("InstallHook", Nil))
     ELSE UNCHANGED <<project, calls>>
  /\ pc' = "start"
  /\ UNCHANGED <<flags, password, filter, options, jobs, stdout, result, exitStatus,
                 filterArgs, jobsArg, startArg, runner, runnerErr>>
  /\ UNCHANGED <<sigVars, hookVars>>

\* Lines 174-177: spread.Start(project, options).
Start ==
  /\ Alive /\ pc = "start"
  /\ \E e \in {Nil, ErrStart} :
       /\ calls' = Append(calls, Call("Start", e))
       /\ startArg' = Append(startArg, [options |-> options[1],
                                        hook |-> project[1].PreRestoreProject])
       /\ IF e # Nil
          THEN Return(e) /\ runner' = runner
          ELSE pc' = "notify" /\ runner' = "running" /\ result' = result
  /\ UNCHANGED <<flags, password, filter, options, project, jobs, stdout, exitStatus,
                 filterArgs, jobsArg, runnerErr>>
  /\ UNCHANGED <<sigVars, hookVars>>

\* Lines 179-180: sigch := make(chan os.Signal, 1); signal.Notify(sigch, os.Interrupt).
Notify ==
  /\ Alive /\ pc = "notify"
  /\ notified' = TRUE
  /\ calls' = Append(calls, Call("Notify", Nil))
  /\ pc' = "go"
  /\ UNCHANGED <<flags, password, filter, options, project, jobs, stdout, result,
                 exitStatus, filterArgs, jobsArg, startArg, runner, runnerErr>>
  /\ UNCHANGED <<sigch, gpc, interrupts, hookVars>>

\* Lines 181-184: the go statement.
Go ==
  /\ Alive /\ pc = "go"
  /\ gpc' = "recv"
  /\ pc' = "wait"
  /\ UNCHANGED <<flags, password, filter, options, project, jobs, stdout, result,
                 exitStatus, calls, filterArgs, jobsArg, startArg, runner, runnerErr>>
  /\ UNCHANGED <<notified, sigch, interrupts, hookVars>>

\* Line 186: runner.Wait() is entered ...
WaitCall ==
  /\ Alive /\ pc = "wait"
  /\ calls' = Append(calls, Call("Wait.call", Nil))
  /\ pc' = "waiting"
  /\ UNCHANGED <<flags, password, filter, options, project, jobs, stdout, result,
                 exitStatus, filterArgs, jobsArg, startArg, runner, runnerErr>>
  /\ UNCHANGED <<sigVars, hookVars>>

\* ... and run() returns what it returns.
WaitReturn ==
  /\ Alive /\ pc = "waiting"
  /\ runner = "finished"
  /\ calls' = Append(calls, Call("Wait", runnerErr))
  /\ Return(runnerErr)
  /\ UNCHANGED <<flags, password, filter, options, project, jobs, stdout,
                 exitStatus, filterArgs, jobsArg, startArg, runner, runnerErr>>
  /\ UNCHANGED <<sigVars, hookVars>>

\* Mutant: main prints the error and returns without os.Exit(1).
MainExitZero ==
  /\ Alive /\ pc = "returned"
  /\ exitStatus' = "0"
  /\ pc' = "exited"
  /\ UNCHANGED <<flags, password, filter, options, project, jobs, stdout, result,
                 calls, filterArgs, jobsArg, startArg, runner, runnerErr>>
  /\ UNCHANGED <<sigVars, hookVars>>

\* Lines 84-89: main.
MainExit ==
  /\ Alive /\ pc = "returned"
  /\ exitStatus' = IF result # Nil THEN "1" ELSE "0"
  /\ pc' = "exited"
  /\ UNCHANGED <<flags, password, filter, options, project, jobs, stdout, result,
                 calls, filterArgs, jobsArg, startArg, runner, runnerErr>>
  /\ UNCHANGED <<sigVars, hookVars>>

\* ------------------------------------------------------------------ signals
\* An interrupt while signal.Notify is in effect: the signal package sends it to
\* sigch without blocking, so it is dropped when the buffer is full.
InterruptDelivered ==
  /\ Alive /\ notified /\ interrupts < MaxInterrupts
  /\ interrupts' = interrupts + 1
  /\ sigch' = IF sigch < SigchCap THEN sigch + 1 ELSE sigch
  /\ UNCHANGED <<runVars, exitStatus, calls, runner, runnerErr, notified, gpc, hookVars>>

\* An interrupt before signal.Notify: the default disposition ends the process.
InterruptKills ==
  /\ Alive /\ ~notified /\ interrupts < MaxInterrupts
  /\ interrupts' = interrupts + 1
  /\ exitStatus' = "SIGINT"
  /\ UNCHANGED <<runVars, calls, runner, runnerErr, notified, sigch, gpc, hookVars>>

\* Line 182: <-sigch
GoRecv ==
  /\ Alive /\ gpc = "recv" /\ sigch > 0
  /\ sigch' = sigch - 1
  /\ gpc' = "stop"
  /\ UNCHANGED <<runVars, exitStatus, calls, runner, runnerErr, notified, interrupts,
                 hookVars>>

\* Mutant: the goroutine loops (for range sigch) and stops the runner per signal.
GoStopLoops ==
  /\ Alive /\ gpc = "stop"
  /\ calls' = Append(calls, Call("Stop", Nil))
  /\ runner' = IF runner = "running" THEN "stopping" ELSE runner
  /\ gpc' = "recv"
  /\ UNCHANGED <<runVars, exitStatus, runnerErr, notified, sigch, interrupts, hookVars>>

\* Line 183: runner.Stop(), after which the goroutine ends.
GoStop ==
  /\ Alive /\ gpc = "stop"
  /\ calls' = Append(calls, Call("Stop", Nil))
  /\ runner' = IF runner = "running" THEN "stopping" ELSE runner
  /\ gpc' = "end"
  /\ UNCHANGED <<runVars, exitStatus, runnerErr, notified, sigch, interrupts, hookVars>>

\* ------------------------------------------------------------------ the Runner
\* The campaign completes, or winds down after Stop, with its aggregate error.
RunnerFinish ==
  /\ Alive /\ runner \in {"running", "stopping"} /\ dl.pc = "idle"
  /\ \E e \in {Nil, ErrWait} : runnerErr' = e
  /\ runner' = "finished"
  /\ UNCHANGED <<runVars, exitStatus, calls, sigVars, hookVars>>

\* The Runner invokes the pre-restore hook of a job, if one is installed.
RunnerHook ==
  /\ Alive /\ runner \in {"running", "stopping"} /\ dl.pc = "idle"
  /\ project[1].PreRestoreProject
  /\ hookCalls < MaxHookCalls
  /\ hookCalls' = hookCalls + 1
  /\ dl' = [NoDl EXCEPT !.pc = "split"]
  /\ UNCHANGED <<runVars, exitStatus, calls, runner, runnerErr, sigVars, hookRets, dcalls>>

\* ------------------------------------------------------------------ downloadDir
\* strings.Split(s, sep) for a one-character sep: cut at every occurrence.
RECURSIVE IndexFrom(_, _, _)
IndexFrom(s, c, i) ==
  IF i > Len(s) THEN 0
  ELSE IF s[i] = c THEN i
  ELSE IndexFrom(s, c, i + 1)

\* Mutant: strings.SplitN(s, sep, 2), cutting at the first occurrence only.
SplitFirst(s, c) ==
  LET m == IndexFrom(s, c, 1)
  IN IF m = 0 THEN <<s>>
     ELSE <<SubSeq(s, 1, m - 1), SubSeq(s, m + 1, Len(s))>>

RECURSIVE SplitOn(_, _)
SplitOn(s, c) ==
  LET m == IndexFrom(s, c, 1)
  IN IF m = 0 THEN <<s>>
     ELSE <<SubSeq(s, 1, m - 1)>> \o SplitOn(SubSeq(s, m + 1, Len(s)), c)

\* Lines 45-52.
RECURSIVE firstErr(_)
firstErr(errs) ==
  IF errs = <<>> THEN Nil
  ELSE IF Head(errs) # Nil THEN Head(errs)
  ELSE firstErr(Tail(errs))

\* `return e` from downloadDir, which is what the hook returns.
HookReturn(e) ==
  /\ hookRets' = Append(hookRets, e)
  /\ dl' = NoDl

\* Lines 55-60.
DlSplit ==
  /\ Alive /\ dl.pc = "split"
  /\ LET parts == SplitOn(flags.download, ":")
     IN IF Len(parts) # 2
        THEN HookReturn(Nil)
        ELSE dl' = [dl EXCEPT !.pc = "mkdir", !.parts = parts] /\ hookRets' = hookRets
  /\ UNCHANGED <<runVars, exitStatus, calls, runner, runnerErr, sigVars, hookCalls, dcalls>>

\* Lines 62-64: os.MkdirAll(dest, 0755).
DlMkdir ==
  /\ Alive /\ dl.pc = "mkdir"
  /\ \E e \in {Nil, ErrMkdir} :
       /\ dcalls' = Append(dcalls, Call("MkdirAll", e))
       /\ IF e # Nil
          THEN HookReturn(e)
          ELSE dl' = [dl EXCEPT !.pc = "start"] /\ hookRets' = hookRets
  /\ UNCHANGED <<runVars, exitStatus, calls, runner, runnerErr, sigVars, hookCalls>>

\* Lines 66-76: io.Pipe(), exec.Command("tar", "xJ") reading tarr, cmd.Start().
DlStart ==
  /\ Alive /\ dl.pc = "start"
  /\ \E e \in {Nil, ErrTarStart} :
       /\ dcalls' = Append(dcalls, Call("cmd.Start", e))
       /\ IF e # Nil
          THEN HookReturn(e)
          ELSE dl' = [dl EXCEPT !.pc = "recv", !.tar = "running"] /\ hookRets' = hookRets
  /\ UNCHANGED <<runVars, exitStatus, calls, runner, runnerErr, sigVars, hookCalls>>

\* Line 77: client.RecvTar(source, []string{}, tarw) is entered ...
DlRecvCall ==
  /\ Alive /\ dl.pc = "recv"
  /\ dcalls' = Append(dcalls, Call("RecvTar.call", Nil))
  /\ dl' = [dl EXCEPT !.pc = "recving"]
  /\ UNCHANGED <<runVars, exitStatus, calls, runner, runnerErr, sigVars, hookCalls, hookRets>>

\* ... writes the archive to tarw chunk by chunk (a Write on an io.Pipe waits for the
\* previous chunk to be read) ...
RecvWrite ==
  /\ Alive /\ dl.pc = "recving"
  /\ dl.pipe = 0 /\ dl.written < MaxChunks
  /\ dl' = [dl EXCEPT !.pipe = 1, !.written = dl.written + 1]
  /\ UNCHANGED <<runVars, exitStatus, calls, runner, runnerErr, sigVars, hookCalls,
                 hookRets, dcalls>>

\* ... and returns, with or without an error.
RecvReturn ==
  /\ Alive /\ dl.pc = "recving"
  /\ \E e \in {Nil, ErrRecv} :
       /\ dcalls' = Append(dcalls, Call("RecvTar", e))
       /\ dl' = [dl EXCEPT !.pc = "close", !.err = e]
  /\ UNCHANGED <<runVars, exitStatus, calls, runner, runnerErr, sigVars, hookCalls, hookRets>>

\* Mutant: the write end of the pipe is left open.
DlCloseMissing ==
  /\ Alive /\ dl.pc = "close"
  /\ dl' = [dl EXCEPT !.pc = "wait"]
  /\ UNCHANGED <<runVars, exitStatus, calls, runner, runnerErr, sigVars, hookCalls,
                 hookRets, dcalls>>

\* Line 78: tarw.Close(); a chunk still unread is lost, later reads see end-of-stream.
DlClose ==
  /\ Alive /\ dl.pc = "close"
  /\ dcalls' = Append(dcalls, Call("tarw.Close", Nil))
  /\ dl' = [dl EXCEPT !.pc = "wait", !.closed = TRUE, !.pipe = 0]
  /\ UNCHANGED <<runVars, exitStatus, calls, runner, runnerErr, sigVars, hookCalls, hookRets>>

\* The unpacker reads a chunk from its standard input.
TarRead ==
  /\ Alive /\ dl.tar = "running" /\ dl.pipe > 0
  /\ dl' = [dl EXCEPT !.pipe = 0]
  /\ UNCHANGED <<runVars, exitStatus, calls, runner, runnerErr, sigVars, hookCalls,
                 hookRets, dcalls>>

\* The unpacker reads end-of-stream and exits, cleanly or not.
TarEOF ==
  /\ Alive /\ dl.tar = "running" /\ dl.pipe = 0 /\ dl.closed
  /\ \E e \in {Nil, ErrTar} :
       dl' = [dl EXCEPT !.tar = "exited", !.tarErr = e, !.eof = TRUE]
  /\ UNCHANGED <<runVars, exitStatus, calls, runner, runnerErr, sigVars, hookCalls,
                 hookRets, dcalls>>

\* The unpacker gives up before the end of its input (a corrupt archive, a full disk).
TarAbort ==
  /\ Alive /\ dl.tar = "running"
  /\ dl' = [dl EXCEPT !.tar = "exited", !.tarErr = ErrTar]
  /\ UNCHANGED <<runVars, exitStatus, calls, runner, runnerErr, sigVars, hookCalls,
                 hookRets, dcalls>>

\* Lines 79-81: cmd.Wait() returns once the process has exited and the goroutine
\* copying tarr to it has seen the end of tarr; then return firstErr(err, terr).
DlWait ==
  /\ Alive /\ dl.pc = "wait"
  /\ dl.tar = "exited" /\ dl.closed
  /\ dcalls' = Append(dcalls, Call("cmd.Wait", dl.tarErr))
  /\ HookReturn(firstErr(<<dl.err, dl.tarErr>>))
  /\ UNCHANGED <<runVars, exitStatus, calls, runner, runnerErr, sigVars, hookCalls>>

\* ------------------------------------------------------------------ specifications
RunStep ==
  \/ Validate \/ Password \/ Filter \/ Options \/ Load \/ Jobs \/ PrintJobs
  \/ Discard \/ InstallHook \/ Start \/ Notify \/ Go \/ WaitCall \/ WaitReturn
  \/ MainExit

SignalStep == InterruptDelivered \/ InterruptKills \/ GoRecv \/ GoStop

DownloadStep ==
  \/ DlSplit \/ DlMkdir \/ DlStart \/ DlRecvCall \/ RecvWrite \/ RecvReturn
  \/ DlClose \/ TarRead \/ TarEOF \/ TarAbort \/ DlWait

\* A campaign whose Runner never reaches a RESTORE phase (no hook invocation).
NextRun == RunStep \/ SignalStep \/ RunnerFinish

Next == RunStep \/ SignalStep \/ RunnerFinish \/ RunnerHook \/ DownloadStep

\* Every flag combination run() branches on.
SpecRun == InitRun /\ [][NextRun]_vars

\* Every -download value, with the Runner invoking the hook.
Spec == Init /\ [][Next]_vars

\* The Go scheduler runs every runnable goroutine and the system runs the unpacker:
\* a step of run(), of downloadDir or of `tar` that stays possible is eventually taken.
FairSpec ==
  /\ Spec
  /\ WF_vars(Notify) /\ WF_vars(Go) /\ WF_vars(WaitCall)
  /\ WF_vars(DlClose) /\ WF_vars(TarEOF) /\ WF_vars(DlWait)

\* ------------------------------------------------------------------ claims
Returned == pc \in {"returned", "exited"}
Bit(b) == IF b THEN 1 ELSE 0

\* How many of the five run-mode groups the command line sets.
C1_GroupsSet ==
  Bit(flags.debug) + Bit(flags.shell) + Bit(flags.shellBefore \/ flags.shellAfter)
    + Bit(flags.abend) + Bit(flags.restore)

\* C1: with the run-mode flags taken as the five groups {debug}, {shell},
\* {shell-before or shell-after}, {abend}, {restore}, run() returns the "cannot have
\* more than one of ..." error exactly when two or more groups are set; -shell-before
\* with -shell-after alone is accepted; and an invocation that is rejected calls none of
\* spread.Load, Project.Jobs and spread.Start.
C1_ModeExclusion ==
  /\ result = ErrModes => C1_GroupsSet >= 2
  /\ (C1_GroupsSet >= 2 /\ pc # "validate") => (Returned /\ result = ErrModes)
  /\ C1_GroupsSet >= 2 => (~Called("Load") /\ ~Called("Jobs") /\ ~Called("Start"))
  /\ (flags.shellBefore /\ flags.shellAfter /\ C1_GroupsSet = 1) => result # ErrModes

C1_Witness ==
  /\ pc = "returned" /\ result = ErrModes /\ calls = <<>>
  /\ flags.shell /\ flags.abend /\ C1_GroupsSet = 2

\* C2: the Options every spread.Start call receives have Reuse = TRUE when Discard is
\* set and ReusePid is 0, and Reuse = the -reuse flag in every other case.
C2_ReuseForcedByDiscard ==
  \A i \in 1..Len(startArg) :
    LET o == startArg[i].options
    IN /\ o.Discard = flags.discard /\ o.ReusePid = flags.reusePid
       /\ IF o.Discard /\ o.ReusePid = 0 THEN o.Reuse = TRUE ELSE o.Reuse = flags.reuse

C2_Witness ==
  /\ Len(startArg) = 1 /\ Succeeded("Start")
  /\ flags.discard /\ flags.reusePid = 0 /\ ~flags.reuse
  /\ startArg[1].options.Reuse

\* C3: under -list, once Load has succeeded, run() calls Project.Jobs exactly once; if
\* Jobs succeeds it prints the names in the order of the returned sequence and returns
\* nil, if Jobs fails it prints nothing and returns Jobs' error; and it never installs
\* the pre-restore hook, calls spread.Start, registers the interrupt handler or calls
\* Stop or Wait.
C3_ListOnlyPrints ==
  flags.list =>
    /\ ~Called("InstallHook") /\ ~Called("Start") /\ ~Called("Notify")
    /\ ~Called("Wait.call") /\ ~Called("Wait") /\ ~Called("Stop")
    /\ ~notified /\ gpc = "none" /\ runner = "none"
    /\ project # <<>> => ~project[1].PreRestoreProject
    /\ Count("Jobs") <= 1
    /\ Len(stdout) <= Len(jobs) /\ stdout = SubSeq(jobs, 1, Len(stdout))
    /\ (Returned /\ Succeeded("Load")) =>
         /\ Count("Jobs") = 1
         /\ IF Failed("Jobs")
            THEN stdout = <<>> /\ result = ErrJobs
            ELSE stdout = jobs /\ result = Nil

C3_Witness ==
  /\ flags.list /\ pc = "returned" /\ Succeeded("Jobs")
  /\ jobs = <<"j2", "j1">> /\ stdout = <<"j2", "j1">> /\ result = Nil

\* The external calls of the campaign-level steps.
C4_CampaignOps == {"rand.Read", "NewFilter", "Load"}

\* C4: the campaign-level steps run in the order validation, password, filter, load;
\* the first one that fails ends run() with that step's error, no later step is
\* attempted, and spread.Start is not called.
C4_CampaignErrorsAbort ==
  /\ C1_GroupsSet >= 2 => calls = <<>>
  /\ Before("rand.Read", "NewFilter") /\ Before("rand.Read", "Load")
  /\ Before("NewFilter", "Load") /\ Before("Load", "Start") /\ Before("Load", "Jobs")
  /\ \A i \in 1..Len(calls) :
       (calls[i].op \in C4_CampaignOps /\ calls[i].err # Nil) =>
         /\ i = Len(calls)
         /\ Returned /\ result = calls[i].err
  /\ (result # Nil /\ ~Failed("Jobs") /\ ~Failed("Start") /\ ~Failed("Wait")) =>
       ~Called("Start")
  /\ Called("Load") =>
       /\ flags.pass = "" <=> Succeeded("rand.Read")
       /\ Len(flags.args) > 0 <=> Succeeded("NewFilter")
  /\ Called("Start") =>
       (C1_GroupsSet < 2 /\ Succeeded("Load") /\ ~Failed("rand.Read") /\ ~Failed("NewFilter"))

C4_Witness ==
  /\ pc = "returned" /\ result = ErrLoad /\ Failed("Load")
  /\ Succeeded("rand.Read") /\ Succeeded("NewFilter") /\ ~Called("Start")

\* Some step of run() failed.
C5_SomeFailure ==
  \/ C1_GroupsSet >= 2
  \/ Failed("rand.Read") \/ Failed("NewFilter") \/ Failed("Load") \/ Failed("Jobs")
  \/ Failed("Start")
  \/ Failed("Wait")

\* C5: the process exits with status 1 exactly when run() returned a non-nil error,
\* and with status 0 when it returned nil; run() returns non-nil exactly when a
\* campaign-level step failed (validation, password, filter, load, or Jobs under
\* -list), Start failed, or Wait returned a non-nil error.
C5_ExitStatus ==
  /\ exitStatus = "1" <=> (pc = "exited" /\ result # Nil)
  /\ exitStatus = "0" <=> (pc = "exited" /\ result = Nil)
  /\ pc = "exited" => exitStatus \in {"0", "1"}
  /\ Returned => (result # Nil <=> C5_SomeFailure)
  /\ (Returned /\ Succeeded("Wait")) => result = Nil
  /\ (Returned /\ flags.list /\ Succeeded("Jobs")) => result = Nil

C5_Witness ==
  /\ exitStatus = "1" /\ Failed("Wait") /\ Succeeded("Start") /\ result = ErrWait

\* The state part of C6: what the call history may hold.
C6_Safety ==
  /\ Count("Stop") <= 1
  /\ Called("Stop") =>
       /\ interrupts > 0
       /\ Succeeded("Start") /\ Before("Start", "Stop") /\ Before("Notify", "Stop")
  /\ ~Succeeded("Start") => (~Called("Wait.call") /\ ~Called("Stop") /\ gpc = "none")
  /\ Count("Wait.call") <= 1 /\ Count("Wait") <= 1
  /\ (Succeeded("Start") /\ Returned) =>
       /\ Count("Wait.call") = 1 /\ Count("Wait") = 1
       /\ calls[Len(calls)].op \in {"Wait", "Stop"}
       /\ \E i \in 1..Len(calls) : calls[i].op = "Wait" /\ calls[i].err = result

C7_Built == BuildOptions(flags, password, filter)

\* C7 as stated: the Options passed to Project.Jobs or spread.Start equal, field for
\* field, the value built by the Options literal.
C7_NeverMutated ==
  /\ \A i \in 1..Len(jobsArg) : jobsArg[i] = C7_Built
  /\ \A i \in 1..Len(startArg) : startArg[i].options = C7_Built

\* o equals the constructed Options except for a Reuse forced by Discard.
C7_OnlyReuse(o) ==
  /\ [o EXCEPT !.Reuse = C7_Built.Reuse] = C7_Built
  /\ o.Reuse # C7_Built.Reuse => (o.Reuse /\ o.Discard /\ o.ReusePid = 0)

\* C7 amended: after construction the only field of Options that ever differs from the
\* constructed value is Reuse, which differs only by having been set to TRUE when
\* Discard is set and ReusePid is 0; the Options passed to Project.Jobs equal the
\* constructed value, those passed to spread.Start equal it in every other field.
C7_OnlyReuseForced ==
  /\ options # <<>> => C7_OnlyReuse(options[1])
  /\ (options # <<>> /\ flags.list) => options[1] = C7_Built
  /\ \A i \in 1..Len(jobsArg) : jobsArg[i] = C7_Built
  /\ \A i \in 1..Len(startArg) : C7_OnlyReuse(startArg[i].options)

C7_Witness ==
  /\ Len(startArg) = 1
  /\ startArg[1].options.Reuse /\ ~C7_Built.Reuse
  /\ startArg[1].options.Resend /\ startArg[1].options.Filter # ZeroFilter

\* C8: with no positional argument NewFilter is not called, run() cannot fail with a
\* filter error and Options carries the zero-value Filter; with one or more, NewFilter
\* is called exactly once, with all of them, and its error is returned before the
\* project is loaded.
C8_EmptyPatternsNoFilter ==
  /\ Len(flags.args) = 0 =>
       /\ ~Called("NewFilter") /\ filterArgs = <<>> /\ result # ErrFilter
       /\ options # <<>> => options[1].Filter = ZeroFilter
       /\ \A i \in 1..Len(jobsArg) : jobsArg[i].Filter = ZeroFilter
       /\ \A i \in 1..Len(startArg) : startArg[i].options.Filter = ZeroFilter
  /\ Len(flags.args) > 0 =>
       /\ Count("NewFilter") <= 1
       /\ Called("NewFilter") <=> filterArgs = <<flags.args>>
       /\ ~Called("NewFilter") => filterArgs = <<>>
       /\ (options # <<>> \/ Called("Load")) => Succeeded("NewFilter")
       /\ options # <<>> => options[1].Filter = [set |-> TRUE, patterns |-> flags.args]
       /\ Failed("NewFilter") => (Returned /\ result = ErrFilter /\ ~Called("Load"))

C8_Witness ==
  /\ flags.args = <<>> /\ Succeeded("Start") /\ ~Called("NewFilter")
  /\ startArg[1].options.Filter = ZeroFilter

\* The order of downloadDir's calls, per invocation.
C9_Order ==
  \A i \in 1..Len(dcalls) :
    /\ dcalls[i].op = "RecvTar.call" => (i > 1 /\ dcalls[i - 1] = Call("cmd.Start", Nil))
    /\ dcalls[i].op = "RecvTar" => (i > 1 /\ dcalls[i - 1].op = "RecvTar.call")
    /\ dcalls[i].op = "tarw.Close" => (i > 1 /\ dcalls[i - 1].op = "RecvTar")
    /\ dcalls[i].op = "cmd.Wait" => (i > 1 /\ dcalls[i - 1].op = "tarw.Close")
    /\ (dcalls[i].op = "RecvTar" /\ i < Len(dcalls)) => dcalls[i + 1].op = "tarw.Close"
    /\ (dcalls[i] = Call("cmd.Start", ErrTarStart) /\ i < Len(dcalls)) =>
         dcalls[i + 1].op = "MkdirAll"

\* The pipe and the unpacker at each position of downloadDir.
C9_State ==
  /\ dl.pc \in {"recv", "recving", "close"} => (dl.tar # "none" /\ ~dl.closed /\ ~dl.eof)
  /\ dl.pc = "wait" => (dl.closed /\ dl.tar # "none")
  /\ dl.eof => dl.closed
  /\ dl.pc = "idle" => dl = NoDl

\* The step on which downloadDir returns after cmd.Wait.
C9_Result ==
  (dl.pc = "wait" /\ dl'.pc = "idle") =>
     /\ Len(hookRets') = Len(hookRets) + 1
     /\ hookRets'[Len(hookRets')] =
          (IF dl.err # Nil THEN dl.err ELSE IF dl.tarErr # Nil THEN dl.tarErr ELSE Nil)
     /\ dcalls[Len(dcalls) - 1] = Call("RecvTar", dl.err)
     /\ dcalls' = Append(dcalls, Call("cmd.Wait", dl.tarErr))

\* C9: in downloadDir the unpacker is started before Client.RecvTar is entered; tarw is
\* closed right after RecvTar returns, failed or not, and before cmd.Wait; the unpacker
\* sees end-of-stream only after that close; once RecvTar has returned downloadDir
\* returns (or the process is gone); it returns RecvTar's error if there is one,
\* otherwise the unpacker's, otherwise nil; and RecvTar is never entered when the
\* unpacker could not be started.
C9_DownloadStreamsAndReturns ==
  /\ [](C9_Order /\ C9_State)
  /\ [][C9_Result]_vars
  /\ (dl.pc = "close") ~> (dl.pc = "idle" \/ ~Alive)

\* RecvTar succeeded, the unpacker read end-of-stream and failed: its error is returned.
C9_Witness ==
  /\ hookRets = <<ErrTar>>
  /\ Len(dcalls) = 6
  /\ dcalls[4] = Call("RecvTar", Nil) /\ dcalls[6] = Call("cmd.Wait", ErrTar)

\* The number of ':' in the -download value.
C10_Colons == Cardinality({i \in 1..Len(flags.download) : flags.download[i] = ":"})

\* C10: every non-list invocation installs the pre-restore hook before spread.Start,
\* whatever -download is; when the -download value does not hold exactly one ':' the
\* hook returns nil without creating the directory, starting the unpacker or calling
\* RecvTar; RecvTar is called only for a value with exactly one ':'.
C10_HookOnlyOnPair ==
  /\ Called("Start") =>
       /\ Count("InstallHook") = 1 /\ Before("InstallHook", "Start")
       /\ \A i \in 1..Len(startArg) : startArg[i].hook
       /\ ~flags.list
  /\ hookCalls > 0 => Succeeded("Start")
  /\ C10_Colons # 1 =>
       /\ dcalls = <<>>
       /\ dl.pc \in {"idle", "split"} /\ dl.tar = "none"
       /\ \A i \in 1..Len(hookRets) : hookRets[i] = Nil
       /\ Len(hookRets) = hookCalls - Bit(dl.pc # "idle")
  /\ (\E i \in 1..Len(dcalls) : dcalls[i].op = "RecvTar.call") => C10_Colons = 1

C10_Witness ==
  /\ flags.download = <<":", ":">> /\ hookRets = <<Nil>> /\ dcalls = <<>>
  /\ dl.pc = "idle"

====
